---- MODULE Spec2Model ----
(***************************************************************************)
(* Model of the cross-cloud replicator: the replication engine             *)
(* (src/src/replicator.py), the retry decorator and the object-name        *)
(* sanitizer (src/src/utils.py) and the configuration (src/src/config.py). *)
(*                                                                         *)
(* Strings are sequences of one-character strings, exception messages are  *)
(* sequences of strings (concatenation is \o), None is modelled by 0 for   *)
(* handles and by NoExc for exceptions.                                    *)
(***************************************************************************)
EXTENDS Integers, Sequences, FiniteSets, TLC

(* ------------------------------ bounds --------------------------------- *)
\* number of replicate calls that may run concurrently on one engine
MaxCalls == 3
\* number of replicate calls the sequential caller performs
MaxRuns == 1
\* largest MAX_RETRIES the environment sets when it does not keep the default
MaxConfigRetries == 0
\* longest source object, in bytes
MaxBodyLen == 2
\* Config.chunk_size, scaled down
ChunkSize == 1
\* largest max_retries handed to retry_with_backoff on its own
MaxDecoratorRetries == 4
MaxKeyLen == 4
MaxFieldLen == 2
MaxSeqRuns == 2

Calls == 1 .. MaxCalls
Buckets == {"src"}
KeySeq == << <<"a">>, <<"/", "a">>, <<"b">> >>
Keys == {KeySeq[i] : i \in DOMAIN KeySeq}
KeyRank(k) == CHOOSE i \in DOMAIN KeySeq : KeySeq[i] = k
\* the source objects: n bytes, each different from the others
Bodies == {[i \in 1 .. n |-> i] : n \in 0 .. MaxBodyLen}
ErrorCodes == {"NoSuchKey", "NoSuchBucket", "AccessDenied"}

(* ------------------------------ utils.py ------------------------------- *)
RECURSIVE lstrip(_, _)
lstrip(s, ch) ==
  IF s # <<>> /\ Head(s) = ch THEN lstrip(Tail(s), ch) ELSE s

\* mutant: only one leading separator is removed
sanitize_gcs_object_name_One(s3_key) ==
  IF s3_key # <<>> /\ Head(s3_key) = "/" THEN Tail(s3_key) ELSE s3_key

sanitize_gcs_object_name(s3_key) == lstrip(s3_key, "/")

Names == {sanitize_gcs_object_name(k) : k \in Keys}

RECURSIVE SumSeq(_)
SumSeq(s) == IF s = <<>> THEN 0 ELSE Head(s) + SumSeq(Tail(s))

(* ----------------------------- exceptions ------------------------------ *)
NoExc == [cls |-> "None", code |-> "", text |-> <<>>]

Exc(cls, text) == [cls |-> cls, code |-> "", text |-> text]

\* botocore ClientError: e.response['Error']['Code'] is code; n numbers the request
ClientError(code, n) ==
  [cls |-> "ClientError", code |-> code, text |-> <<"ClientError ", code, " #", ToString(n)>>]

\* an exception of class cls raised by a backend library on request n
BackendError(cls, n) == Exc(cls, <<cls, " #", ToString(n)>>)

Parent(cls) ==
  CASE cls = "S3DownloadError" -> "ReplicationError"
    [] cls = "GCSUploadError" -> "ReplicationError"
    [] cls = "ValidationError" -> "ReplicationError"
    [] cls = "ConfigurationError" -> "ReplicationError"
    [] cls = "ReplicationError" -> "Exception"
    [] cls = "GoogleCloudError" -> "Exception"
    [] cls = "ClientError" -> "Exception"
    [] cls = "NoCredentialsError" -> "Exception"
    [] cls = "Exception" -> "BaseException"
    [] OTHER -> "object"

RECURSIVE IsInstance(_, _)
IsInstance(e, cls) ==
  IF e.cls = cls THEN TRUE
  ELSE IF Parent(e.cls) = "object" THEN FALSE
  ELSE IsInstance([e EXCEPT !.cls = Parent(e.cls)], cls)

(* ------------------------ utils.retry_with_backoff --------------------- *)
\* mutant: the loop counts from 1, range(1, max_retries + 1)
WrapperEnter_FromOne(p) ==
  [max_retries |-> p.max_retries, backoff |-> p.backoff, attempt |-> 1,
   current_delay |-> p.delay, last_exception |-> NoExc]

\* the wrapper's locals on entry
WrapperEnter(p) ==
  [max_retries |-> p.max_retries, backoff |-> p.backoff, attempt |-> 0,
   current_delay |-> p.delay, last_exception |-> NoExc]

\* mutant: the loop gives up one attempt early, range(max_retries)
WrapperOnException_OneShort(r, e) ==
  LET r1 == [r EXCEPT !.last_exception = e] IN
  IF r.attempt >= r.max_retries - 1
  THEN [rt |-> r1, slept |-> <<>>, again |-> FALSE, raise |-> r1.last_exception]
  ELSE [rt |-> [r1 EXCEPT !.attempt = @ + 1, !.current_delay = @ * r.backoff],
        slept |-> <<r.current_delay>>, again |-> TRUE, raise |-> NoExc]

\* mutant: only the first exception is remembered
WrapperOnException_KeepFirst(r, e) ==
  LET r1 == IF r.last_exception = NoExc THEN [r EXCEPT !.last_exception = e] ELSE r IN
  IF r.attempt = r.max_retries
  THEN [rt |-> r1, slept |-> <<>>, again |-> FALSE, raise |-> r1.last_exception]
  ELSE [rt |-> [r1 EXCEPT !.attempt = @ + 1, !.current_delay = @ * r.backoff],
        slept |-> <<r.current_delay>>, again |-> TRUE, raise |-> NoExc]

\* the except branch of the loop body: what the wrapper does when attempt
\* number r.attempt raised e
WrapperOnException(r, e) ==
  LET r1 == [r EXCEPT !.last_exception = e] IN
  IF r.attempt = r.max_retries
  THEN [rt |-> r1, slept |-> <<>>, again |-> FALSE, raise |-> r1.last_exception]
  ELSE [rt |-> [r1 EXCEPT !.attempt = @ + 1, !.current_delay = @ * r.backoff],
        slept |-> <<r.current_delay>>, again |-> TRUE, raise |-> NoExc]

\* the decorator arguments at the two call sites
DownloadRetry == [max_retries |-> 3, delay |-> 1, backoff |-> 2]
UploadRetry == [max_retries |-> 3, delay |-> 1, backoff |-> 2]

(* ------------------------------- state --------------------------------- *)
VARIABLES
  config,         \* Config handed to CrossCloudReplicator.__init__
  s3_client,      \* self._s3_client: 0 is None, n > 0 the n-th client built
  gcs_client,     \* self._gcs_client
  target_bucket,  \* self._target_bucket
  constructed,    \* per handle, how many times it has been constructed
  gcs,            \* the destination bucket: object name -> object
  pc,             \* per call: where the call is
  sub,            \* per call: position inside the current step
  args,           \* per call: s3_bucket, s3_key and the derived object_name
  rt,             \* per call: locals of the running retry wrapper
  stream,         \* per call: the BytesIO returned by _download_from_s3
  outcome,        \* per call: the dict replicate returned
  obs,            \* per call: what an observer of the call has counted
  runs,           \* per call slot: number of calls started
  http            \* the request at /v1/replicate, its response, the engine calls made

\* what most steps of a call leave alone: the engine's attributes, the
\* destination bucket and the HTTP exchange
shared == <<config, s3_client, gcs_client, target_bucket, constructed, gcs, http>>
vars == <<config, s3_client, gcs_client, target_bucket, constructed, gcs,
          pc, sub, args, rt, stream, outcome, obs, runs, http>>

NoField == [kind |-> "missing", val |-> <<>>]
NoPayload == [kind |-> "none", s3_bucket |-> NoField, s3_key |-> NoField, extra |-> FALSE]
NoHttp ==
  [state |-> "none", req |-> [is_json |-> FALSE, body |-> NoPayload],
   code |-> 0, calls |-> <<>>]

NoOutcome == [status |-> "none"]
NoStream == [buf |-> <<>>, pos |-> 0]
NoArgs == [s3_bucket |-> "", s3_key |-> <<>>, object_name |-> <<>>]
NoMeta == [source_bucket |-> "", source_key |-> <<>>]
\* cause: the backend exception of the last failed fetch attempt, until a
\* fetch succeeds; readBefore: a failed fetch attempt had read chunks, until
\* the returned stream is first written from; advanced: the last failed write
\* attempt left the stream past its start; wrote: the bytes the call uploaded
NoObs ==
  [exists |-> 0, existsRes |-> "none", existsExc |-> NoExc, sawWritten |-> FALSE,
   fetch |-> 0, fetchOk |-> FALSE, fetched |-> <<>>, write |-> 0,
   writeFails |-> 0, uploaded |-> 0, raised |-> NoExc, sleeps |-> <<>>,
   cause |-> NoExc, readBefore |-> FALSE, advanced |-> FALSE,
   wrote |-> <<>>]

\* Config.max_retries when MAX_RETRIES is not set
DefaultMaxRetries == 3

Configs ==
  [max_retries : {DefaultMaxRetries} \cup 0 .. MaxConfigRetries, retry_delay : {1}, retry_backoff : {2},
   chunk_size : {ChunkSize}, target_gcs_bucket : {"dst"}]

\* an object that was in the destination bucket before the engine was built
Preexisting == [present |-> TRUE, data |-> <<>>, metadata |-> NoMeta, writes |-> 0]
Absent == [present |-> FALSE, data |-> <<>>, metadata |-> NoMeta, writes |-> 0]

\* a freshly built engine (__init__, lines 20-24) in front of a destination
\* bucket that may already hold objects
InitEngine ==
  /\ config \in Configs
  /\ s3_client = 0 /\ gcs_client = 0 /\ target_bucket = 0
  /\ constructed = [h \in {"s3", "gcs", "bucket"} |-> 0]
  /\ gcs \in [Names -> {Absent, Preexisting}]

Init ==
  /\ InitEngine
  /\ pc = [c \in Calls |-> "idle"]
  /\ sub = [c \in Calls |-> "none"]
  /\ args = [c \in Calls |-> NoArgs]
  /\ rt = [c \in Calls |-> WrapperEnter(DownloadRetry)]
  /\ stream = [c \in Calls |-> NoStream]
  /\ outcome = [c \in Calls |-> NoOutcome]
  /\ obs = [c \in Calls |-> NoObs]
  /\ runs = [c \in Calls |-> 0]
  /\ http = NoHttp

(* --------------------- replicate: the returned dicts ------------------- *)
SourceUri(a) == <<"s3://", a.s3_bucket, "/">> \o a.s3_key
DestinationUri(a) == <<"gs://", config.target_gcs_bucket, "/">> \o a.object_name

\* mutant: the skipped dict gives another reason
SkippedOutcome_OtherReason(a, elapsed) ==
  [status |-> "skipped", reason |-> "already_replicated", source |-> SourceUri(a),
   destination |-> DestinationUri(a), duration_seconds |-> elapsed]

SkippedOutcome(a, elapsed) ==
  [status |-> "skipped", reason |-> "file_already_exists",
   source |-> SourceUri(a), destination |-> DestinationUri(a),
   duration_seconds |-> elapsed]

\* mutant: the bytes left to read, len(stream.read())
nbytes_Remaining(st) == Len(st.buf) - st.pos

\* stream.getbuffer().nbytes
nbytes(st) == Len(st.buf)

SuccessOutcome(a, elapsed, st) ==
  [status |-> "success", source |-> SourceUri(a),
   destination |-> DestinationUri(a), duration_seconds |-> elapsed,
   size_bytes |-> nbytes(st)]

\* mutant: the failed dict also reports a size
FailedOutcome_WithSize(a, elapsed, msg) ==
  [status |-> "failed", error |-> msg, source |-> SourceUri(a),
   destination |-> DestinationUri(a), duration_seconds |-> elapsed,
   size_bytes |-> 0]

FailedOutcome(a, elapsed, msg) ==
  [status |-> "failed", error |-> msg, source |-> SourceUri(a),
   destination |-> DestinationUri(a), duration_seconds |-> elapsed]

\* mutant: the second except clause is missing
ReplicateCatch_NoCatchAll(e, a, elapsed) ==
  IF IsInstance(e, "S3DownloadError") \/ IsInstance(e, "GCSUploadError")
  THEN [caught |-> TRUE, outcome |-> FailedOutcome(a, elapsed, e.text)]
  ELSE [caught |-> FALSE, outcome |-> NoOutcome]

\* the two except clauses of replicate
ReplicateCatch(e, a, elapsed) ==
  IF IsInstance(e, "S3DownloadError") \/ IsInstance(e, "GCSUploadError")
  THEN [caught |-> TRUE, outcome |-> FailedOutcome(a, elapsed, e.text)]
  ELSE IF IsInstance(e, "Exception")
  THEN [caught |-> TRUE,
        outcome |-> FailedOutcome(a, elapsed, <<"Unexpected error: ">> \o e.text)]
  ELSE [caught |-> FALSE, outcome |-> NoOutcome]

(* ------------------ the except clauses of the helpers ------------------ *)
\* _check_file_exists_in_gcs: TRUE when the exception is absorbed
ExistsCatch(e) == IsInstance(e, "GoogleCloudError")

\* mutant: both not-found codes are reported as a missing file
DownloadCatch_OneNotFound(e, a) ==
  IF IsInstance(e, "ClientError")
  THEN IF e.code \in {"NoSuchKey", "NoSuchBucket"}
       THEN Exc("S3DownloadError", <<"File not found: ">> \o SourceUri(a))
       ELSE Exc("S3DownloadError", <<"S3 download failed: ">> \o e.text)
  ELSE IF IsInstance(e, "Exception")
  THEN Exc("S3DownloadError", <<"Unexpected error during S3 download: ">> \o e.text)
  ELSE e

\* _download_from_s3: the exception that leaves the function
DownloadCatch(e, a) ==
  IF IsInstance(e, "ClientError")
  THEN IF e.code = "NoSuchKey"
       THEN Exc("S3DownloadError", <<"File not found: ">> \o SourceUri(a))
       ELSE IF e.code = "NoSuchBucket"
       THEN Exc("S3DownloadError", <<"Bucket not found: ", a.s3_bucket>>)
       ELSE Exc("S3DownloadError", <<"S3 download failed: ">> \o e.text)
  ELSE IF IsInstance(e, "Exception")
  THEN Exc("S3DownloadError", <<"Unexpected error during S3 download: ">> \o e.text)
  ELSE e

\* _upload_to_gcs: the exception that leaves the function
UploadCatch(e) ==
  IF IsInstance(e, "GoogleCloudError")
  THEN Exc("GCSUploadError", <<"GCS upload failed: ">> \o e.text)
  ELSE IF IsInstance(e, "Exception")
  THEN Exc("GCSUploadError", <<"Unexpected error during GCS upload: ">> \o e.text)
  ELSE e

\* the except clauses of the three lazy properties
S3ClientCatch(e) ==
  IF IsInstance(e, "NoCredentialsError")
  THEN Exc("ReplicationError", <<"AWS credentials not configured: ">> \o e.text)
  ELSE e

GcsClientCatch(e) ==
  IF IsInstance(e, "Exception")
  THEN Exc("ReplicationError", <<"GCS client initialization failed: ">> \o e.text)
  ELSE e

TargetBucketCatch(e) ==
  IF IsInstance(e, "Exception")
  THEN Exc("ReplicationError", <<"Failed to access target GCS bucket: ">> \o e.text)
  ELSE e

\* the read loop of _download_from_s3: body.read(chunk_size) until empty
RECURSIVE ReadChunks(_, _, _)
ReadChunks(body, chunk_size, buf) ==
  LET n == IF Len(body) < chunk_size THEN Len(body) ELSE chunk_size
      chunk == SubSeq(body, 1, n)
  IN IF chunk = <<>> THEN buf
     ELSE ReadChunks(SubSeq(body, n + 1, Len(body)), chunk_size, buf \o chunk)

(* ------------------- one call's frame and its moves -------------------- *)
Frame(c) ==
  [pc |-> pc[c], sub |-> sub[c], rt |-> rt[c], outcome |-> outcome[c], obs |-> obs[c]]

SetFrame(c, L) ==
  /\ pc' = [pc EXCEPT ![c] = L.pc]
  /\ sub' = [sub EXCEPT ![c] = L.sub]
  /\ rt' = [rt EXCEPT ![c] = L.rt]
  /\ outcome' = [outcome EXCEPT ![c] = L.outcome]
  /\ obs' = [obs EXCEPT ![c] = L.obs]

Elapsed(L) == SumSeq(L.obs.sleeps)

\* replicate returns out
Finish(L, out) == [L EXCEPT !.pc = "done", !.sub = "none", !.outcome = out]

\* e reaches the try block of replicate
ReplicateExcept(L, e, a) ==
  LET h == ReplicateCatch(e, a, Elapsed(L)) IN
  IF h.caught THEN Finish(L, h.outcome)
  ELSE [L EXCEPT !.pc = "raised", !.sub = "none"]

\* mutant: a retry after a failed write goes back to the fetch
WrapperExcept_Refetch(L, e, a) ==
  LET w == WrapperOnException(L.rt, e)
      L1 == [L EXCEPT !.rt = w.rt, !.obs.raised = e, !.obs.sleeps = @ \o w.slept]
  IN IF w.again
     THEN [L1 EXCEPT !.sub = "enter", !.pc = IF @ = "write" THEN "fetch" ELSE @]
     ELSE ReplicateExcept(L1, w.raise, a)

\* the wrapped function raised e inside retry_with_backoff's wrapper
WrapperExcept(L, e, a) ==
  LET w == WrapperOnException(L.rt, e)
      L1 == [L EXCEPT !.rt = w.rt, !.obs.raised = e, !.obs.sleeps = @ \o w.slept]
  IN IF w.again THEN [L1 EXCEPT !.sub = "enter"]
     ELSE ReplicateExcept(L1, w.raise, a)

\* mutant: the result of the existence check is ignored
ExistsReturn_Ignored(L, res, a) ==
  [L EXCEPT !.obs.existsRes = IF res THEN "true" ELSE "false",
            !.pc = "fetch", !.sub = "enter", !.rt = WrapperEnter(DownloadRetry)]

\* _check_file_exists_in_gcs returned res
ExistsReturn(L, res, a) ==
  LET L1 == [L EXCEPT !.obs.existsRes = IF res THEN "true" ELSE "false"] IN
  IF res THEN Finish(L1, SkippedOutcome(a, Elapsed(L1)))
  ELSE [L1 EXCEPT !.pc = "fetch", !.sub = "enter", !.rt = WrapperEnter(DownloadRetry)]

\* exception e is raised at the call's current position
RaisedIn(L, e, a) ==
  CASE L.pc = "exists" ->
         LET L1 == [L EXCEPT !.obs.existsExc = e] IN
         IF ExistsCatch(e) THEN ExistsReturn(L1, FALSE, a)
         ELSE ReplicateExcept(L1, e, a)
    [] L.pc = "fetch" ->
         WrapperExcept([L EXCEPT !.obs.cause = e], DownloadCatch(e, a), a)
    [] L.pc = "write" ->
         WrapperExcept([L EXCEPT !.obs.writeFails = @ + 1], UploadCatch(e), a)

(* ------------------------------ replicate ------------------------------ *)
\* the locals of replicate(b, k) after lines 144-145
Request(b, k) ==
  [s3_bucket |-> b, s3_key |-> k, object_name |-> sanitize_gcs_object_name(k)]

\* replicate(b, k) is called by a caller whose previous call has returned
Begin(c, b, k) ==
  /\ pc[c] \in {"idle", "done"}
  /\ runs' = [runs EXCEPT ![c] = @ + 1]
  /\ args' = [args EXCEPT ![c] = Request(b, k)]
  /\ stream' = [stream EXCEPT ![c] = NoStream]
  /\ SetFrame(c, [pc |-> "exists", sub |-> "enter",
                  rt |-> WrapperEnter(DownloadRetry),
                  outcome |-> NoOutcome, obs |-> NoObs])
  /\ UNCHANGED shared

\* replicate(b, k) is called, at most MaxRuns times
Start(c, b, k) == runs[c] < MaxRuns /\ Begin(c, b, k)

\* self.target_bucket is read: which part of the lazy properties runs next
TargetBucketNext ==
  IF target_bucket # 0 THEN "io" ELSE IF gcs_client # 0 THEN "bucket" ELSE "gcs"

\* self.s3_client is read
S3ClientNext == IF s3_client # 0 THEN "io" ELSE "s3"

\* the function of step p (counted in obs[p]) is entered with handle h set:
\* the frame at the backend call
AtIO(c, p, h) == pc[c] = p /\ (sub[c] = "io" \/ (sub[c] = "enter" /\ h # 0))
Entered(L, p) == IF L.sub = "enter" THEN [L EXCEPT !.obs[p] = @ + 1, !.sub = "io"] ELSE L

\* _check_file_exists_in_gcs is entered and finds self._target_bucket None
ExistsEnter(c) ==
  /\ pc[c] = "exists" /\ sub[c] = "enter" /\ target_bucket = 0
  /\ SetFrame(c, [Frame(c) EXCEPT !.obs.exists = @ + 1, !.sub = TargetBucketNext])
  /\ UNCHANGED <<shared, args, stream, runs>>

\* gcs_client: storage.Client(...) returns and is assigned
InitGcsOk(c) ==
  /\ sub[c] = "gcs"
  /\ constructed' = [constructed EXCEPT !["gcs"] = @ + 1]
  /\ gcs_client' = constructed["gcs"] + 1
  /\ SetFrame(c, [Frame(c) EXCEPT !.sub = "bucket"])
  /\ UNCHANGED <<config, s3_client, target_bucket, gcs, args, stream, runs, http>>

\* gcs_client: storage.Client(...) raises
InitGcsFail(c) ==
  /\ sub[c] = "gcs"
  /\ SetFrame(c, RaisedIn(Frame(c),
                  TargetBucketCatch(GcsClientCatch(BackendError("Exception", 0))),
                  args[c]))
  /\ UNCHANGED <<shared, args, stream, runs>>

\* target_bucket: self.gcs_client.bucket(...) returns and is assigned
InitBucketOk(c) ==
  /\ sub[c] = "bucket"
  /\ constructed' = [constructed EXCEPT !["bucket"] = @ + 1]
  /\ target_bucket' = constructed["bucket"] + 1
  /\ SetFrame(c, [Frame(c) EXCEPT !.sub = "io"])
  /\ UNCHANGED <<config, s3_client, gcs_client, gcs, args, stream, runs, http>>

\* target_bucket: self.gcs_client.bucket(...) raises
InitBucketFail(c) ==
  /\ sub[c] = "bucket"
  /\ SetFrame(c, RaisedIn(Frame(c),
                  TargetBucketCatch(BackendError("Exception", 0)), args[c]))
  /\ UNCHANGED <<shared, args, stream, runs>>

\* s3_client: boto3.client(...) returns and is assigned
InitS3Ok(c) ==
  /\ sub[c] = "s3"
  /\ constructed' = [constructed EXCEPT !["s3"] = @ + 1]
  /\ s3_client' = constructed["s3"] + 1
  /\ SetFrame(c, [Frame(c) EXCEPT !.sub = "io"])
  /\ UNCHANGED <<config, gcs_client, target_bucket, gcs, args, stream, runs, http>>

\* s3_client: boto3.client(...) raises
InitS3Fail(c) ==
  /\ sub[c] = "s3"
  /\ \E cls \in {"NoCredentialsError", "Exception"} :
       SetFrame(c, RaisedIn(Frame(c), S3ClientCatch(BackendError(cls, 0)), args[c]))
  /\ UNCHANGED <<shared, args, stream, runs>>

\* mutant: the existence check is made for the unsanitized key
ExistsArg_RawKey(a) == a.s3_key

\* the name replicate hands to _check_file_exists_in_gcs: line 149
ExistsArg(a) == a.object_name

\* mutant: the blob is never found
BlobExists_Never(name) == FALSE

\* self.target_bucket.blob(name).exists()
BlobExists(name) == name \in DOMAIN gcs /\ gcs[name].present

\* blob.exists() answers
ExistsOk(c) ==
  /\ AtIO(c, "exists", target_bucket)
  /\ LET L == [Entered(Frame(c), "exists") EXCEPT
                 !.obs.sawWritten = gcs[args[c].object_name].writes > 0]
     IN SetFrame(c, ExistsReturn(L, BlobExists(ExistsArg(args[c])), args[c]))
  /\ UNCHANGED <<shared, args, stream, runs>>

\* blob.exists() raises
ExistsFail(c) ==
  /\ AtIO(c, "exists", target_bucket)
  /\ \E cls \in {"GoogleCloudError", "Exception"} :
       LET L == Entered(Frame(c), "exists") IN
       SetFrame(c, RaisedIn(L, BackendError(cls, L.obs.exists), args[c]))
  /\ UNCHANGED <<shared, args, stream, runs>>

\* the wrapper calls _download_from_s3, which finds self._s3_client None
FetchEnter(c) ==
  /\ pc[c] = "fetch" /\ sub[c] = "enter" /\ s3_client = 0
  /\ SetFrame(c, [Frame(c) EXCEPT !.obs.fetch = @ + 1, !.sub = S3ClientNext])
  /\ UNCHANGED <<shared, args, stream, runs>>

\* head_object, get_object and the read loop succeed: lines 77-94, then
\* replicate goes on to line 171
\* mutant: the stream is left where it is
Seek0_Stay(st) == st

\* stream.seek(0)
Seek0(st) == [st EXCEPT !.pos = 0]

\* mutant: the buffer of the previous attempt is written to again
NewBytesIO_Reused(prev) == prev

\* line 82: stream = io.BytesIO(), whatever the previous attempt's was
NewBytesIO(prev) == NoStream

FetchOk(c, bodies) ==
  /\ AtIO(c, "fetch", s3_client)
  /\ \E body \in bodies :
       /\ stream' = [stream EXCEPT ![c] =
            Seek0([buf |-> ReadChunks(body, config.chunk_size, NewBytesIO(@).buf),
                   pos |-> Len(body)])]
       /\ SetFrame(c, [Entered(Frame(c), "fetch") EXCEPT !.obs.fetchOk = TRUE, !.obs.fetched = body,
                                       !.obs.raised = NoExc, !.obs.cause = NoExc,
                                       !.pc = "write", !.sub = "enter",
                                       !.rt = WrapperEnter(UploadRetry)])
  /\ UNCHANGED <<shared, args, runs>>

\* head_object or get_object raises (lines 77-81, no buffer made yet), or a
\* read raises (lines 85-90) after the chunks of `read` went into the
\* attempt's buffer
FetchFail(c) ==
  /\ AtIO(c, "fetch", s3_client)
  /\ LET L == Entered(Frame(c), "fetch") IN
     \/ /\ \E e \in {ClientError(code, L.obs.fetch) : code \in ErrorCodes}
                    \cup {BackendError("Exception", L.obs.fetch)} :
              SetFrame(c, RaisedIn(L, e, args[c]))
        /\ UNCHANGED stream
     \/ \E read \in Bodies :
          /\ stream' = [stream EXCEPT ![c] =
               [buf |-> ReadChunks(read, config.chunk_size, NewBytesIO(@).buf),
                pos |-> Len(read)]]
          /\ SetFrame(c, RaisedIn([L EXCEPT !.obs.readBefore = @ \/ read # <<>>],
                                  BackendError("Exception", L.obs.fetch), args[c]))
  /\ UNCHANGED <<shared, args, runs>>

\* _upload_to_gcs never finds self._target_bucket None: a call reaches line
\* 171 only after blob.exists() at line 65 ran on the bucket handle, and a
\* handle once assigned is never reset
\* metadata built at lines 163-168 (timestamp and version left out)
\* mutant: the metadata records the stripped name as the source key
Metadata_ObjectName(a) == [source_bucket |-> a.s3_bucket, source_key |-> a.object_name]

Metadata(a) == [source_bucket |-> a.s3_bucket, source_key |-> a.s3_key]

\* what upload_from_file reads: the stream from its position to its end
Rest(st) == SubSeq(st.buf, st.pos + 1, Len(st.buf))

\* mutant: every call uploads from one buffer kept on the engine
StreamOf_Shared(c) == stream[1]

\* line 160: the stream is a local of the call
StreamOf(c) == stream[c]

\* blob.upload_from_file succeeds and replicate returns: lines 113-126, 173-181
WriteOk(c) ==
  /\ AtIO(c, "write", target_bucket)
  /\ LET st == Seek0(StreamOf(c))
         n == args[c].object_name
         L == [Entered(Frame(c), "write") EXCEPT !.obs.uploaded = @ + 1,
                                                 !.obs.wrote = Rest(st),
                                                 !.obs.readBefore = FALSE]
         st1 == [st EXCEPT !.pos = Len(st.buf)]
     IN /\ gcs' = [gcs EXCEPT ![n] =
                     [present |-> TRUE, data |-> Rest(st),
                      metadata |-> Metadata(args[c]), writes |-> @.writes + 1]]
        /\ stream' = [stream EXCEPT ![c] = st1]
        /\ SetFrame(c, Finish(L, SuccessOutcome(args[c], Elapsed(L), st1)))
  /\ UNCHANGED <<config, s3_client, gcs_client, target_bucket, constructed, args, runs, http>>

\* blob.upload_from_file raises after reading p bytes
WriteFail(c) ==
  /\ AtIO(c, "write", target_bucket)
  /\ \E cls \in {"GoogleCloudError", "Exception"}, p \in 0 .. Len(stream[c].buf) :
       LET L == [Entered(Frame(c), "write") EXCEPT !.obs.advanced = p > 0,
                                                   !.obs.readBefore = FALSE] IN
       /\ stream' = [stream EXCEPT ![c] = [Seek0(@) EXCEPT !.pos = p]]
       /\ SetFrame(c, RaisedIn(L, BackendError(cls, L.obs.write), args[c]))
  /\ UNCHANGED <<shared, args, runs>>

(* --------------------------- specifications ---------------------------- *)
\* one caller issuing replicate calls one after another; backends may fail
Next ==
  \E c \in {1} :
    \/ \E b \in Buckets, k \in Keys : Start(c, b, k)
    \/ ExistsEnter(c) \/ ExistsOk(c) \/ ExistsFail(c)
    \/ InitGcsOk(c) \/ InitGcsFail(c)
    \/ InitBucketOk(c) \/ InitBucketFail(c)
    \/ InitS3Ok(c) \/ InitS3Fail(c)
    \/ FetchEnter(c) \/ FetchOk(c, Bodies) \/ FetchFail(c)
    \/ WriteOk(c) \/ WriteFail(c)

Spec == Init /\ [][Next]_vars

\* MaxCalls concurrent calls on one engine built with the default Config in
\* front of an empty destination bucket; backends are reliable and the source
\* objects do not change
SourceObject(k) ==
  CASE k = <<"a">> -> <<1>>
    [] k = <<"/", "a">> -> <<1, 2>>
    [] OTHER -> <<>>

\* every call has been issued; calls are numbered in the order of their keys
InitConc ==
  /\ InitEngine /\ config.max_retries = DefaultMaxRetries
  /\ gcs = [n \in Names |-> Absent]
  /\ args \in [Calls -> {Request(b, k) : b \in Buckets, k \in Keys}]
  /\ \A c \in Calls, d \in Calls :
       c < d => KeyRank(args[c].s3_key) <= KeyRank(args[d].s3_key)
  /\ pc = [c \in Calls |-> "exists"]
  /\ sub = [c \in Calls |-> "enter"]
  /\ rt = [c \in Calls |-> WrapperEnter(DownloadRetry)]
  /\ stream = [c \in Calls |-> NoStream]
  /\ outcome = [c \in Calls |-> NoOutcome]
  /\ obs = [c \in Calls |-> NoObs]
  /\ runs = [c \in Calls |-> 1]
  /\ http = NoHttp

NextConc ==
  \E c \in Calls :
    \/ ExistsEnter(c) \/ ExistsOk(c)
    \/ InitGcsOk(c) \/ InitBucketOk(c) \/ InitS3Ok(c)
    \/ FetchEnter(c) \/ FetchOk(c, {SourceObject(args[c].s3_key)})
    \/ WriteOk(c)

SpecConc == InitConc /\ [][NextConc]_vars

\* one caller making up to MaxSeqRuns calls one after another, for keys that
\* may share a destination name and from more than one source bucket; the
\* clients can be built, S3 and GCS calls may fail, and the source objects
\* do not change
SeqBuckets == {"src", "src2"}

StartSeq(c, b, k) == runs[c] < MaxSeqRuns /\ Begin(c, b, k)

InitSeq == Init /\ config.max_retries = DefaultMaxRetries

NextSeq ==
  \E c \in {1} :
    \/ \E b \in SeqBuckets, k \in Keys : StartSeq(c, b, k)
    \/ ExistsEnter(c) \/ ExistsOk(c) \/ ExistsFail(c)
    \/ InitGcsOk(c) \/ InitBucketOk(c) \/ InitS3Ok(c)
    \/ FetchEnter(c) \/ FetchOk(c, {SourceObject(args[c].s3_key)}) \/ FetchFail(c)
    \/ WriteOk(c) \/ WriteFail(c)

SpecSeq == InitSeq /\ [][NextSeq]_vars

\* retry_with_backoff on its own: an opaque operation wrapped with any
\* decorator arguments; its invocations are counted in obs.fetch
RetryArgs == [max_retries : 0 .. MaxDecoratorRetries, delay : {1, 2}, backoff : {1, 2}]

InitRetry ==
  /\ InitEngine /\ config.max_retries = DefaultMaxRetries /\ gcs = [n \in Names |-> Absent]
  /\ pc = [c \in Calls |-> IF c = 1 THEN "wrapped" ELSE "idle"]
  /\ sub = [c \in Calls |-> "none"]
  /\ args = [c \in Calls |-> NoArgs]
  /\ \E p \in RetryArgs : rt = [c \in Calls |-> WrapperEnter(p)]
  /\ stream = [c \in Calls |-> NoStream]
  /\ outcome = [c \in Calls |-> NoOutcome]
  /\ obs = [c \in Calls |-> NoObs]
  /\ runs = [c \in Calls |-> 0]
  /\ http = NoHttp

\* line 19: func returns v and the wrapper returns it
WrappedReturns(c) ==
  /\ pc[c] = "wrapped"
  /\ \E v \in Bodies :
       SetFrame(c, [Frame(c) EXCEPT !.obs.fetch = @ + 1, !.obs.fetchOk = TRUE,
                                    !.obs.fetched = v, !.pc = "returned",
                                    !.outcome = [status |-> "returned", value |-> v]])
  /\ UNCHANGED <<shared, args, stream, runs>>

\* lines 20-32: func raises e
WrappedRaises(c) ==
  /\ pc[c] = "wrapped"
  /\ \E cls \in {"S3DownloadError", "GCSUploadError", "Exception"} :
       LET e == BackendError(cls, obs[c].fetch + 1)
           w == WrapperOnException(rt[c], e)
           L == [Frame(c) EXCEPT !.obs.fetch = @ + 1, !.obs.raised = e, !.rt = w.rt,
                                 !.obs.sleeps = @ \o w.slept]
       IN SetFrame(c, IF w.again THEN L
                      ELSE [L EXCEPT !.pc = "raised",
                                     !.outcome = [status |-> "raised", exc |-> w.raise]])
  /\ UNCHANGED <<shared, args, stream, runs>>

NextRetry == \E c \in {1} : WrappedReturns(c) \/ WrappedRaises(c)

SpecRetry == InitRetry /\ [][NextRetry]_vars

\* sanitize_gcs_object_name on its own: the name of any key of up to
\* MaxKeyLen characters, separators included
KeyChars == {"/", "a", "."}
AllKeys == UNION {[1 .. n -> KeyChars] : n \in 0 .. MaxKeyLen}

InitSanitize ==
  /\ InitEngine /\ config.max_retries = DefaultMaxRetries /\ gcs = [n \in Names |-> Absent]
  /\ pc = [c \in Calls |-> "idle"]
  /\ sub = [c \in Calls |-> "none"]
  /\ args = [c \in Calls |-> NoArgs]
  /\ rt = [c \in Calls |-> WrapperEnter(DownloadRetry)]
  /\ stream = [c \in Calls |-> NoStream]
  /\ outcome = [c \in Calls |-> NoOutcome]
  /\ obs = [c \in Calls |-> NoObs]
  /\ runs = [c \in Calls |-> 0]
  /\ http = NoHttp

\* line 145: object_name = sanitize_gcs_object_name(s3_key)
SanitizeCall(c, k) ==
  /\ pc[c] = "idle"
  /\ pc' = [pc EXCEPT ![c] = "named"]
  /\ args' = [args EXCEPT ![c] = Request("src", k)]
  /\ UNCHANGED <<shared, sub, rt, stream, outcome, obs, runs>>

NextSanitize == \E c \in {1}, k \in AllKeys : SanitizeCall(c, k)

SpecSanitize == InitSanitize /\ [][NextSanitize]_vars

(* ------------------------------- app.py -------------------------------- *)
\* the values a field of the JSON payload can have: absent, a number, or a
\* string of up to MaxFieldLen characters, blanks included
FieldChars == {" ", "b"}
FieldStrings == UNION {[1 .. n -> FieldChars] : n \in 0 .. MaxFieldLen}
FieldVals ==
  {NoField, [kind |-> "number", val |-> <<>>]}
    \cup {[kind |-> "string", val |-> s] : s \in FieldStrings}

\* the bodies of a request: text that does not parse as JSON, a JSON array,
\* or a JSON object with or without s3_bucket, s3_key and one more field
Payloads ==
  {[NoPayload EXCEPT !.kind = k] : k \in {"malformed", "array"}}
    \cup [kind : {"object"}, s3_bucket : FieldVals, s3_key : FieldVals, extra : BOOLEAN]

\* a request with or without Content-Type: application/json
Requests == [is_json : BOOLEAN, body : Payloads]

RECURSIVE rstrip(_, _)
rstrip(s, ch) ==
  IF s # <<>> /\ s[Len(s)] = ch THEN rstrip(SubSeq(s, 1, Len(s) - 1), ch) ELSE s

\* str.strip()
strip(s) == rstrip(lstrip(s, " "), " ")

\* fields.Str(required=True, validate=lambda x: len(x.strip()) > 0)
FieldValid(f) == f.kind = "string" /\ Len(strip(f.val)) > 0

\* request_schema.load(body) returns rather than raising a marshmallow
\* ValidationError; whether a field the schema does not declare is refused
\* depends on the marshmallow release
SchemaLoads(body, refuse_unknown) ==
  /\ body.kind = "object"
  /\ FieldValid(body.s3_bucket) /\ FieldValid(body.s3_key)
  /\ ~(body.extra /\ refuse_unknown)

\* lines 103-106: the arguments replicate is called with
EngineArgs(data) ==
  [s3_bucket |-> strip(data.s3_bucket.val), s3_key |-> strip(data.s3_key.val)]

\* the response of the handler: its status code and the calls it made
Responded(code, calls) == [http EXCEPT !.state = "responded", !.code = code, !.calls = calls]

\* POST /v1/replicate; replicate returns a dict whose status is st
replicate_endpoint ==
  /\ http.state = "received"
  /\ \E refuse_unknown \in BOOLEAN, st \in {"success", "skipped", "failed"} :
       LET r == http.req IN
       http' =
         IF ~r.is_json THEN Responded(400, <<>>)
         ELSE IF r.body.kind = "malformed" THEN Responded(500, <<>>)
         ELSE IF ~SchemaLoads(r.body, refuse_unknown) THEN Responded(400, <<>>)
         ELSE Responded(IF st \in {"success", "skipped"} THEN 200 ELSE 500,
                        <<EngineArgs(r.body)>>)
  /\ UNCHANGED <<config, s3_client, gcs_client, target_bucket, constructed, gcs,
                 pc, sub, args, rt, stream, outcome, obs, runs>>

InitHttp ==
  /\ InitEngine /\ config.max_retries = DefaultMaxRetries /\ gcs = [n \in Names |-> Absent]
  /\ pc = [c \in Calls |-> "idle"]
  /\ sub = [c \in Calls |-> "none"]
  /\ args = [c \in Calls |-> NoArgs]
  /\ rt = [c \in Calls |-> WrapperEnter(DownloadRetry)]
  /\ stream = [c \in Calls |-> NoStream]
  /\ outcome = [c \in Calls |-> NoOutcome]
  /\ obs = [c \in Calls |-> NoObs]
  /\ runs = [c \in Calls |-> 0]
  /\ \E r \in Requests : http = [NoHttp EXCEPT !.state = "received", !.req = r]

NextHttp == replicate_endpoint

SpecHttp == InitHttp /\ [][NextHttp]_vars

(* ------------------------------- claims -------------------------------- *)
Returned(c) == pc[c] = "done"
Running(c) == pc[c] \in {"exists", "fetch", "write"}
NonDecreasing(q) == \A i \in 1 .. Len(q) - 1 : q[i] <= q[i + 1]

\* C1: whatever the existence check, fetch, write and the handle
\* constructions do, replicate never lets an exception out, a running call
\* always has a next step, and the dict it returns has status success,
\* skipped or failed.
C1_AlwaysReturnsOutcome ==
  \A c \in Calls :
    /\ pc[c] # "raised"
    /\ Running(c) => ENABLED Next
    /\ Returned(c) => outcome[c].status \in {"success", "skipped", "failed"}

\* C1 witness: a call has returned failed after an exception that none of
\* the helpers maps (the bucket handle could not be built)
C1_Witness ==
  /\ Returned(1) /\ outcome[1].status = "failed"
  /\ obs[1].existsExc.cls = "ReplicationError"

\* C2: a call whose existence check returned true has returned skipped and
\* has made no fetch attempt, no write attempt and no upload.
C2_ExistsSkips ==
  \A c \in Calls :
    obs[c].existsRes = "true" =>
      /\ Returned(c) /\ outcome[c].status = "skipped"
      /\ obs[c].fetch = 0 /\ obs[c].write = 0 /\ obs[c].uploaded = 0

\* C2 witness: a call found its destination object and returned
C2_Witness == Returned(1) /\ obs[1].existsRes = "true"

\* C3: a returned call whose existence check returned false, whose fetch
\* succeeded and whose write succeeded reports success with size_bytes equal
\* to the number of bytes the fetch produced.
C3_SuccessSize ==
  \A c \in Calls :
    (Returned(c) /\ obs[c].existsRes = "false" /\ obs[c].fetchOk /\ obs[c].uploaded = 1) =>
      /\ outcome[c].status = "success"
      /\ outcome[c].size_bytes = Len(obs[c].fetched)

\* C3 witness: a successful call that fetched MaxBodyLen bytes
C3_Witness ==
  /\ Returned(1) /\ outcome[1].status = "success"
  /\ Len(obs[1].fetched) = MaxBodyLen /\ outcome[1].size_bytes = MaxBodyLen

\* C4: a returned call whose existence check returned false and whose fetch
\* never succeeded made exactly max_retries + 1 fetch attempts, slept exactly
\* max_retries times with non-decreasing delays, made no write attempt, and
\* returned failed with the message of the last fetch failure.
C4_FetchExhausted ==
  \A c \in Calls :
    (Returned(c) /\ obs[c].existsRes = "false" /\ ~obs[c].fetchOk) =>
      /\ obs[c].fetch = DownloadRetry.max_retries + 1
      /\ Len(obs[c].sleeps) = DownloadRetry.max_retries
      /\ NonDecreasing(obs[c].sleeps)
      /\ obs[c].write = 0 /\ obs[c].uploaded = 0
      /\ outcome[c].status = "failed"
      /\ obs[c].raised.cls = "S3DownloadError"
      /\ outcome[c].error = obs[c].raised.text

\* C4 witness: a call returned failed after four fetch attempts, the last of
\* which failed with a backend error other than not-found
C4_Witness ==
  /\ Returned(1) /\ outcome[1].status = "failed" /\ obs[1].fetch = 4
  /\ obs[1].sleeps = <<1, 2, 4>>
  /\ outcome[1].error = <<"S3 download failed: ", "ClientError ", "AccessDenied", " #", "4">>

\* C5: the wrapper gives fetch its final attempt (a call whose fetch never
\* succeeded returns only after more than max_retries attempts), and a
\* returned call whose fetch succeeded on attempt max_retries + 1 and whose
\* write did not fail reports success after exactly one write attempt.
C5_LastAttemptSucceeds ==
  \A c \in Calls :
    /\ (Returned(c) /\ obs[c].existsRes = "false" /\ ~obs[c].fetchOk) =>
         obs[c].fetch > 3
    /\ (Returned(c) /\ obs[c].existsRes = "false" /\ obs[c].fetchOk
          /\ obs[c].fetch = 3 + 1 /\ obs[c].writeFails = 0) =>
         (outcome[c].status = "success" /\ obs[c].write = 1 /\ obs[c].uploaded = 1)

\* C5 witness: success after three failed fetch attempts and one write
C5_Witness ==
  /\ Returned(1) /\ outcome[1].status = "success"
  /\ obs[1].fetch = 4 /\ Len(obs[1].sleeps) = 3 /\ obs[1].write = 1

\* C6: retry_with_backoff with any max_retries >= 0 invokes the operation at
\* most max_retries + 1 times; it returns the result of the first successful
\* attempt without invoking the operation again; when every attempt failed
\* it has made max_retries + 1 attempts, slept max_retries times (never after
\* the last attempt) and raises the exception of the last attempt itself.
C6_RetryContract ==
  \A c \in {1} :
    /\ obs[c].fetch <= rt[c].max_retries + 1
    /\ pc[c] = "returned" =>
         /\ outcome[c].value = obs[c].fetched
         /\ obs[c].fetch = Len(obs[c].sleeps) + 1
    /\ pc[c] = "raised" =>
         /\ obs[c].fetch = rt[c].max_retries + 1
         /\ Len(obs[c].sleeps) = rt[c].max_retries
         /\ outcome[c].exc = obs[c].raised
         /\ outcome[c].exc = BackendError(outcome[c].exc.cls, rt[c].max_retries + 1)

\* C6 witness: with max_retries = 2 all three attempts failed and the third
\* exception was raised
C6_Witness ==
  /\ pc[1] = "raised" /\ rt[1].max_retries = 2 /\ obs[1].fetch = 3
  /\ outcome[1].exc = BackendError("Exception", 3)

\* C7: a fetch or a write that fails on every attempt is attempted exactly
\* config.max_retries + 1 times before replicate returns failed.
C7_ConfiguredBudget ==
  \A c \in Calls :
    (Returned(c) /\ obs[c].existsRes = "false" /\ outcome[c].status = "failed") =>
      /\ ~obs[c].fetchOk => obs[c].fetch = config.max_retries + 1
      /\ obs[c].fetchOk => obs[c].write = config.max_retries + 1

\* C8: an existence check that raised resolved to false, and the call went
\* on to fetch instead of returning the error.
C8_ExistsErrorAbsorbed ==
  \A c \in Calls :
    obs[c].existsExc # NoExc =>
      /\ obs[c].existsRes = "false"
      /\ Returned(c) => obs[c].fetch >= 1

\* C9: each of the three handles is constructed at most once per engine,
\* also when several calls reach it for the first time together.
C9_SingleConstruction ==
  \A h \in DOMAIN constructed : constructed[h] <= 1

\* calls for source key k that have written the destination object
Writers(k) == {c \in Calls : args[c].s3_key = k /\ obs[c].uploaded > 0}

\* C10 as stated: over the calls for one source key, with reliable backends,
\* the destination object is written at most twice.
C10_AtMostTwoWrites ==
  \A k \in Keys : Cardinality(Writers(k)) <= 2

\* C10 amended: a call writes the destination object at most once, and only
\* if its existence check ran while no write of that object had completed
\* and the object was not there; so the writes are bounded by the number of
\* calls that checked before the first write completed, not by two.
C10_WritesOnlyBeforeFirstWrite ==
  \A c \in Calls :
    /\ obs[c].uploaded <= 1
    /\ obs[c].write > 0 => (obs[c].existsRes = "false" /\ ~obs[c].sawWritten)

\* C10 witness: every call was for the same key and every one of them wrote
\* the destination object
C10_Witness ==
  /\ \A c \in Calls : args[c].s3_key = <<"a">> /\ Returned(c) /\ obs[c].uploaded = 1
  /\ gcs[<<"a">>].writes = MaxCalls

\* C11: the dict replicate returns carries status, source, destination and
\* duration_seconds, and of size_bytes, reason and error exactly the one its
\* status calls for: size_bytes iff success, reason iff skipped, error iff
\* failed.
C11_ExactlyOnePopulated ==
  \A c \in Calls :
    Returned(c) =>
      LET d == DOMAIN outcome[c] IN
      /\ {"status", "source", "destination", "duration_seconds"} \subseteq d
      /\ outcome[c].status \in {"success", "skipped", "failed"}
      /\ "size_bytes" \in d <=> outcome[c].status = "success"
      /\ "reason" \in d <=> outcome[c].status = "skipped"
      /\ "error" \in d <=> outcome[c].status = "failed"

\* C11 witness: a call failed after its fetch had succeeded (the write was
\* given up after four attempts), and its dict has an error and no size
C11_Witness ==
  /\ Returned(1) /\ outcome[1].status = "failed" /\ obs[1].fetchOk
  /\ obs[1].write = 4 /\ "size_bytes" \notin DOMAIN outcome[1]

\* the three kinds of cause of a fetch failure
CauseKind(e) ==
  IF e.cls = "ClientError" /\ e.code = "NoSuchKey" THEN "object not found"
  ELSE IF e.cls = "ClientError" /\ e.code = "NoSuchBucket" THEN "bucket not found"
  ELSE "other"

\* the kind an error text tells its reader
TextKind(t) ==
  IF Head(t) = "File not found: " THEN "object not found"
  ELSE IF Head(t) = "Bucket not found: " THEN "bucket not found"
  ELSE "other"

\* C12: when fetch failed on every attempt, the error text of the failed
\* outcome tells the kind of the last cause: object not found, bucket not
\* found and every other error give texts with different openings, so no
\* two kinds give the same text.
C12_ThreeErrorKinds ==
  \A c \in Calls :
    (Returned(c) /\ obs[c].existsRes = "false" /\ ~obs[c].fetchOk) =>
      /\ outcome[c].status = "failed"
      /\ TextKind(outcome[c].error) = CauseKind(obs[c].cause)

\* C12 witness: a call failed because the source bucket does not exist
C12_Witness ==
  /\ Returned(1) /\ obs[1].cause.code = "NoSuchBucket"
  /\ outcome[1].error = <<"Bucket not found: ", "src">>

\* C13 as stated: every skipped outcome carries the reason "destination
\* already exists".
C13_ReasonDestinationExists ==
  \A c \in Calls :
    (Returned(c) /\ outcome[c].status = "skipped") =>
      outcome[c].reason = "destination already exists"

\* C13 amended: every skipped outcome carries the reason
\* "file_already_exists", the literal of line 153.
C13_ReasonFileAlreadyExists ==
  \A c \in Calls :
    (Returned(c) /\ outcome[c].status = "skipped") =>
      outcome[c].reason = "file_already_exists"

\* C13 witness: a call for a key with a leading separator was skipped
\* without any fetch
C13_Witness ==
  /\ Returned(1) /\ outcome[1].status = "skipped"
  /\ args[1].s3_key = <<"/", "a">> /\ obs[1].fetch = 0

\* C15: after a successful call the destination holds, under the key with
\* its leading separators stripped, an object written by exactly one
\* successful write of that call whose metadata records the source bucket
\* and the original, unstripped key.
C15_WriteTargetAndMetadata ==
  \A c \in Calls :
    (Returned(c) /\ outcome[c].status = "success") =>
      LET n == sanitize_gcs_object_name(args[c].s3_key) IN
      /\ obs[c].uploaded = 1
      /\ gcs[n].present /\ gcs[n].writes >= 1
      /\ gcs[n].metadata =
           [source_bucket |-> args[c].s3_bucket, source_key |-> args[c].s3_key]

\* C15 witness: bucket "src", key "/a" wrote object "a" with source_key "/a"
C15_Witness ==
  /\ Returned(1) /\ outcome[1].status = "success"
  /\ args[1].s3_bucket = "src" /\ args[1].s3_key = <<"/", "a">>
  /\ gcs[<<"a">>].metadata.source_key = <<"/", "a">>

\* C14: the name of a key k is k without its longest prefix of separators:
\* a suffix of k, cut after separators only, not starting with a separator;
\* and the name of a name is that name.
C14_StripsLeadingSeparatorsOnly ==
  \A c \in Calls :
    pc[c] = "named" =>
      LET k == args[c].s3_key
          n == args[c].object_name
          d == Len(k) - Len(n)
      IN /\ d >= 0
         /\ n = SubSeq(k, d + 1, Len(k))
         /\ \A i \in 1 .. d : k[i] = "/"
         /\ n # <<>> => Head(n) # "/"
         /\ sanitize_gcs_object_name(n) = n

\* C14 witness: "//a/" is named "a/": two leading separators removed, the
\* trailing one kept
C14_Witness ==
  /\ pc[1] = "named" /\ args[1].s3_key = <<"/", "/", "a", "/">>
  /\ args[1].object_name = <<"a", "/">>

\* the order of the steps of call c over one step of the system that is
\* not the start of a new call
StepOrder(c) ==
  LET o == obs[c]
      n == obs'[c]
  IN /\ n.exists > o.exists =>
          o.exists = 0 /\ o.fetch = 0 /\ o.write = 0
     /\ n.fetch > o.fetch =>
          o.exists = 1 /\ o.existsRes = "false" /\ ~o.fetchOk /\ o.write = 0
     /\ n.write > o.write => o.fetchOk /\ n.fetch = o.fetch
     /\ n.exists >= o.exists /\ n.fetch >= o.fetch /\ n.write >= o.write
     /\ o.fetchOk => n.fetchOk
     /\ pc'[c] = "done" => n.exists = 1

\* C16: within one call the existence check is made exactly once and before
\* any fetch attempt; a fetch attempt is made only while no write attempt
\* has been made and no fetch has succeeded; a write attempt is made only
\* after a fetch succeeded and makes no fetch attempt.
C16_StepsOrdered ==
  [][\A c \in Calls : runs'[c] = runs[c] => StepOrder(c)]_vars

\* C16 witness: a successful call that retried both its fetch and its write
C16_Witness ==
  /\ Returned(1) /\ outcome[1].status = "success"
  /\ obs[1].exists = 1 /\ obs[1].fetch >= 2 /\ obs[1].write >= 2

\* C17: the object a successful call wrote holds all the bytes its fetch
\* produced, from the first to the last, whatever position failed write
\* attempts had left the stream at.
C17_UploadsWholeStream ==
  \A c \in Calls :
    (Returned(c) /\ outcome[c].status = "success") =>
      gcs[args[c].object_name].data = obs[c].fetched

\* C17 witness: a call succeeded right after a write attempt that had
\* failed with the stream read past its start
C17_Witness ==
  /\ Returned(1) /\ outcome[1].status = "success"
  /\ obs[1].advanced /\ obs[1].writeFails >= 1
  /\ Len(gcs[args[1].object_name].data) = MaxBodyLen

\* C18: the stream _download_from_s3 returns holds exactly the bytes of the
\* attempt that succeeded, in order, and is at position zero, whatever
\* earlier failed attempts had read.
C18_FetchStartsAfresh ==
  \A c \in Calls :
    (pc[c] = "write" /\ obs[c].write = 0) =>
      /\ obs[c].fetchOk
      /\ stream[c] = [buf |-> obs[c].fetched, pos |-> 0]

\* C18 witness: a fetch returned its whole object after an earlier attempt
\* had failed with chunks already read
C18_Witness ==
  /\ pc[1] = "write" /\ obs[1].write = 0 /\ obs[1].readBefore
  /\ obs[1].fetch >= 2 /\ Len(stream[1].buf) = MaxBodyLen

\* C19: under every interleaving of calls on one engine, the bytes a
\* successful call wrote are the bytes its own fetch produced for its own
\* key, and the size it reports is their number.
C19_OwnBuffers ==
  \A c \in Calls :
    (Returned(c) /\ outcome[c].status = "success") =>
      /\ obs[c].fetched = SourceObject(args[c].s3_key)
      /\ obs[c].wrote = obs[c].fetched
      /\ outcome[c].size_bytes = Len(obs[c].fetched)

\* C19 witness: two calls for different keys with different objects ran
\* at the same time (both found the S3 client unset) and both succeeded
C19_Witness ==
  \E c \in Calls, d \in Calls :
    /\ args[c].s3_key # args[d].s3_key
    /\ Returned(c) /\ outcome[c].status = "success"
    /\ Returned(d) /\ outcome[d].status = "success"
    /\ obs[c].wrote # obs[d].wrote
    /\ constructed["s3"] >= 2

\* a field is missing, or is a string that is empty once trimmed
MissingOrBlank(f) == f.kind = "missing" \/ (f.kind = "string" /\ strip(f.val) = <<>>)

\* C20: a request that is not JSON (by its content type or because its body
\* does not parse), or whose s3_bucket or s3_key is missing or blank, is
\* answered 400 without any call of replicate; any other request makes
\* exactly one call of replicate, with the trimmed bucket and key.
C20_ValidatedInputOnly ==
  http.state = "responded" =>
    LET r == http.req IN
    IF \/ ~r.is_json \/ r.body.kind = "malformed"
       \/ MissingOrBlank(r.body.s3_bucket) \/ MissingOrBlank(r.body.s3_key)
    THEN http.code = 400 /\ http.calls = <<>>
    ELSE http.calls =
           <<[s3_bucket |-> strip(r.body.s3_bucket.val), s3_key |-> strip(r.body.s3_key.val)]>>

\* call c is in progress and an earlier call's successful write put the
\* object of its destination name there (a call's own write ends the call)
LaterCall(c) == Running(c) /\ gcs[args[c].object_name].writes >= 1

\* the key of the call whose write the destination name of call c holds
WrittenFor(c) == gcs[args[c].object_name].metadata.source_key

\* the existence check of call c has not failed by the end of the step
CheckAnswers(c) == obs'[c].existsExc = NoExc

\* over one step call c makes no fetch and no write attempt, leaves the
\* destination as it is, and if it returns, returns skipped
Quiet(c) ==
  /\ obs[c].fetch = 0 /\ obs'[c].fetch = 0
  /\ obs[c].write = 0 /\ obs'[c].write = 0
  /\ gcs' = gcs
  /\ pc'[c] = "done" => outcome'[c].status = "skipped"

\* C21: in a sequence of calls one after another, a call for key k made
\* after a call for k succeeded, and whose existence check does not fail,
\* makes no fetch and no write attempt, leaves the object written by that
\* success as it is, and returns skipped.
C21_NoRewrite ==
  [][\A c \in Calls :
       (LaterCall(c) /\ WrittenFor(c) = args[c].s3_key /\ CheckAnswers(c)) => Quiet(c)]_vars

\* C21 witness: the second call for key "a" was skipped, and the object
\* holds what the first call wrote
C21_Witness ==
  /\ runs[1] = 2 /\ Returned(1) /\ outcome[1].status = "skipped"
  /\ obs[1].existsExc = NoExc /\ args[1].s3_key = <<"a">>
  /\ gcs[<<"a">>].writes = 1 /\ gcs[<<"a">>].metadata.source_key = <<"a">>
  /\ gcs[<<"a">>].data = SourceObject(<<"a">>)

====
